---- MODULE Spec2Model ----
(***************************************************************************)
(* A model of the unifrac crate: the fixed-point fraction types Primant    *)
(* (closed interval [0, 1]) and Phase (half-open interval [0, 1)), each a  *)
(* single u32 raw code, with their float, ratio and percentage             *)
(* conversions (src/src/primant.rs, src/src/phase.rs).                     *)
(*                                                                         *)
(* The raw codes are full 32-bit values and the floats are IEEE-754        *)
(* binary32 / binary64 values with round-to-nearest-even arithmetic.       *)
(* Both exceed the range of the model checker's integers, so naturals are  *)
(* carried as little-endian sequences of base-2^15 digits ("Big"           *)
(* numbers) and floats as sign / mantissa / exponent records over them.    *)
(***************************************************************************)
EXTENDS Integers, Sequences, FiniteSets, TLC

(***************************************************************************)
(* Big naturals: <<d1, d2, ..., dk>> stands for d1 + d2*Base + ... with    *)
(* every digit in 0..Base-1 and dk # 0; zero is the empty sequence, so     *)
(* equal numbers are equal sequences.                                      *)
(***************************************************************************)
\* Half of the 30 bits a product of two digits may take.
DigitBits == 30 \div 2

Base == 2^DigitBits

RECURSIVE Norm(_)
Norm(s) ==
    IF s = <<>> THEN s
    ELSE IF s[Len(s)] = 0 THEN Norm(SubSeq(s, 1, Len(s) - 1))
    ELSE s

\* The Big number of a model-checker integer n >= 0.
Big(n) == Norm(<<n % Base, (n \div Base) % Base, n \div (Base * Base)>>)

BZero == <<>>

BOne == <<1>>

Dig(a, i) == IF i <= Len(a) THEN a[i] ELSE 0

Zeros(k) == [i \in 1..k |-> 0]

RECURSIVE AddC(_, _, _, _)
AddC(a, b, i, c) ==
    IF i > Len(a) /\ i > Len(b) THEN (IF c = 0 THEN <<>> ELSE <<c>>)
    ELSE LET s == Dig(a, i) + Dig(b, i) + c
         IN  <<s % Base>> \o AddC(a, b, i + 1, s \div Base)

BAdd(a, b) == AddC(a, b, 1, 0)

RECURSIVE SubC(_, _, _, _)
SubC(a, b, i, br) ==
    IF i > Len(a) THEN <<>>
    ELSE LET s == a[i] - Dig(b, i) - br
         IN  <<s % Base>> \o SubC(a, b, i + 1, IF s < 0 THEN 1 ELSE 0)

\* a - b, for a >= b.
BSub(a, b) == Norm(SubC(a, b, 1, 0))

RECURSIVE CmpAt(_, _, _)
CmpAt(a, b, i) ==
    IF i = 0 THEN 0
    ELSE IF a[i] < b[i] THEN -1
    ELSE IF a[i] > b[i] THEN 1
    ELSE CmpAt(a, b, i - 1)

\* -1, 0 or 1 as a < b, a = b or a > b.
BCmp(a, b) ==
    IF Len(a) < Len(b) THEN -1
    ELSE IF Len(a) > Len(b) THEN 1
    ELSE CmpAt(a, b, Len(a))

BLt(a, b) == BCmp(a, b) < 0

BLe(a, b) == BCmp(a, b) <= 0

RECURSIVE MulD(_, _, _, _)
MulD(a, d, i, c) ==
    IF i > Len(a) THEN (IF c = 0 THEN <<>> ELSE <<c>>)
    ELSE LET s == a[i] * d + c
         IN  <<s % Base>> \o MulD(a, d, i + 1, s \div Base)

RECURSIVE MulAt(_, _, _)
MulAt(a, b, i) ==
    IF i > Len(b) THEN <<>>
    ELSE BAdd(IF b[i] = 0 THEN <<>> ELSE Zeros(i - 1) \o MulD(a, b[i], 1, 0),
              MulAt(a, b, i + 1))

BMul(a, b) == IF a = <<>> \/ b = <<>> THEN <<>> ELSE MulAt(a, b, 1)

\* a * 2^k.
BShl(a, k) ==
    IF a = <<>> THEN <<>>
    ELSE Zeros(k \div DigitBits) \o MulD(a, 2^(k % DigitBits), 1, 0)

RECURSIVE DivD(_, _, _, _)
DivD(a, d, i, r) ==
    IF i = 0 THEN <<>>
    ELSE LET s == r * Base + a[i]
         IN  DivD(a, d, i - 1, s % d) \o <<s \div d>>

\* floor(a / 2^k).
BShr(a, k) ==
    IF k \div DigitBits >= Len(a) THEN <<>>
    ELSE LET s == SubSeq(a, (k \div DigitBits) + 1, Len(a))
         IN  Norm(DivD(s, 2^(k % DigitBits), Len(s), 0))

RECURSIVE DigitLen(_)
DigitLen(d) == IF d = 0 THEN 0 ELSE 1 + DigitLen(d \div 2)

\* The number of bits of a: the least k with a < 2^k.
BitLen(a) ==
    IF a = <<>> THEN 0
    ELSE DigitBits * (Len(a) - 1) + DigitLen(a[Len(a)])

\* Bit j of a, counted from 0.
Bit(a, j) == (Dig(a, (j \div DigitBits) + 1) \div 2^(j % DigitBits)) % 2

BOdd(a) == a # <<>> /\ a[1] % 2 = 1

\* The largest digit q with q * d <= cur, found bit by bit from bit k down;
\* cur < Base * d.
RECURSIVE QuoDigit(_, _, _, _)
QuoDigit(cur, d, k, q) ==
    IF k < 0 THEN q
    ELSE IF BLe(MulD(d, q + 2^k, 1, 0), cur)
         THEN QuoDigit(cur, d, k - 1, q + 2^k)
         ELSE QuoDigit(cur, d, k - 1, q)

\* Long division, one base-2^15 digit of n at a time from digit i down;
\* r is the remainder so far. The quotient digits come out little-endian.
RECURSIVE DivLoop(_, _, _, _)
DivLoop(n, d, i, r) ==
    IF i = 0 THEN [q |-> <<>>, r |-> r]
    ELSE LET cur == Norm(<<n[i]>> \o r)
             qd  == QuoDigit(cur, d, DigitBits - 1, 0)
         IN  IF qd = 0
             THEN LET rest == DivLoop(n, d, i - 1, cur)
                  IN  [q |-> rest.q \o <<0>>, r |-> rest.r]
             ELSE LET rest == DivLoop(n, d, i - 1, BSub(cur, MulD(d, qd, 1, 0)))
                  IN  [q |-> rest.q \o <<qd>>, r |-> rest.r]

\* [q |-> floor(n / d), r |-> n mod d], for d # 0.
BDivMod(n, d) ==
    LET res == DivLoop(n, d, Len(n), <<>>)
    IN  [q |-> Norm(res.q), r |-> res.r]

BDiv(n, d) == BDivMod(n, d).q

BMax(a, b) == IF BLt(a, b) THEN b ELSE a

Max(i, j) == IF i < j THEN j ELSE i

Min(i, j) == IF i < j THEN i ELSE j

(***************************************************************************)
(* IEEE-754 floats.  A float is [fmt, cls, neg, m, e]: of format "f32" or  *)
(* "f64"; of class "nan", "inf" or "fin"; a finite one has the value       *)
(* (-1)^neg * m * 2^e with m a Big number.  Finite floats are kept in the  *)
(* one normal form the format gives them (m of exactly Prec bits, or fewer *)
(* bits at the least exponent MinExp; zero is m = 0 at MinExp), so equal   *)
(* finite floats are equal records up to the sign of zero.                 *)
(***************************************************************************)
Formats == {"f32", "f64"}

\* Bits of significand.
Prec(fmt) == IF fmt = "f32" THEN 24 ELSE 53

\* The exponent of the least subnormal.
MinExp(fmt) == IF fmt = "f32" THEN -149 ELSE -1074

\* Every finite float is below 2^MaxBits.
MaxBits(fmt) == IF fmt = "f32" THEN 128 ELSE 1024

\* size_of::<T>() in bytes.
SizeOf(fmt) == IF fmt = "f32" THEN 4 ELSE 8

FNaN(fmt) == [fmt |-> fmt, cls |-> "nan", neg |-> FALSE, m |-> <<>>, e |-> 0]

FInf(fmt, neg) == [fmt |-> fmt, cls |-> "inf", neg |-> neg, m |-> <<>>, e |-> 0]

FZeroS(fmt, neg) ==
    [fmt |-> fmt, cls |-> "fin", neg |-> neg, m |-> <<>>, e |-> MinExp(fmt)]

\* The float of the exactly representable value m * 2^e (m of at most Prec
\* bits, e >= MinExp), in normal form.
FNormal(fmt, neg, m, e) ==
    IF m = <<>> THEN FZeroS(fmt, neg)
    ELSE IF BitLen(m) > Prec(fmt)
         THEN [fmt |-> fmt, cls |-> "fin", neg |-> neg,
               m |-> BShr(m, BitLen(m) - Prec(fmt)),
               e |-> e + (BitLen(m) - Prec(fmt))]
    ELSE LET sh == Min(Prec(fmt) - BitLen(m), e - MinExp(fmt))
         IN  [fmt |-> fmt, cls |-> "fin", neg |-> neg,
              m |-> BShl(m, sh), e |-> e - sh]

\* Round to nearest, ties to even: the float nearest to (q + f) * 2^s, where
\* 0 < f < 1 when sticky and f = 0 otherwise.  With sticky, q carries at least
\* two bits more than the format keeps.
FRound(fmt, neg, q, sticky, s) ==
    LET t == Max(Max(BitLen(q) - Prec(fmt), MinExp(fmt) - s), 0)
    IN  IF t = 0 THEN FNormal(fmt, neg, q, s)
        ELSE LET hi   == BShr(q, t)
                 rem  == BSub(q, BShl(hi, t))
                 c    == BCmp(rem, BShl(BOne, t - 1))
                 up   == c > 0 \/ (c = 0 /\ (sticky \/ BOdd(hi)))
                 m    == IF up THEN BAdd(hi, BOne) ELSE hi
             IN  IF BitLen(m) + s + t > MaxBits(fmt) THEN FInf(fmt, neg)
                 ELSE FNormal(fmt, neg, m, s + t)

IsZero(x) == x.cls = "fin" /\ x.m = <<>>

\* -1, 0, 1 as |a| < |b|, |a| = |b|, |a| > |b|; neither is a NaN.
MagCmp(a, b) ==
    IF a.cls = "inf" THEN (IF b.cls = "inf" THEN 0 ELSE 1)
    ELSE IF b.cls = "inf" THEN -1
    ELSE IF a.m = <<>> THEN (IF b.m = <<>> THEN 0 ELSE -1)
    ELSE IF b.m = <<>> THEN 1
    ELSE IF a.e < b.e THEN -1
    ELSE IF a.e > b.e THEN 1
    ELSE BCmp(a.m, b.m)

\* PartialOrd on floats: -1, 0, 1, or 2 when unordered (a NaN).
FCmp(a, b) ==
    IF a.cls = "nan" \/ b.cls = "nan" THEN 2
    ELSE IF IsZero(a) /\ IsZero(b) THEN 0
    ELSE IF a.neg /\ ~b.neg THEN -1
    ELSE IF ~a.neg /\ b.neg THEN 1
    ELSE IF a.neg THEN MagCmp(b, a)
    ELSE MagCmp(a, b)

FLt(a, b) == FCmp(a, b) = -1

FLe(a, b) == FCmp(a, b) \in {-1, 0}

FEq(a, b) == FCmp(a, b) = 0

\* a * b.
FMul(a, b) ==
    LET neg == a.neg # b.neg
    IN  IF a.cls = "nan" \/ b.cls = "nan" THEN FNaN(a.fmt)
        ELSE IF a.cls = "inf" \/ b.cls = "inf"
             THEN (IF IsZero(a) \/ IsZero(b) THEN FNaN(a.fmt) ELSE FInf(a.fmt, neg))
        ELSE IF IsZero(a) \/ IsZero(b) THEN FZeroS(a.fmt, neg)
        ELSE FRound(a.fmt, neg, BMul(a.m, b.m), FALSE, a.e + b.e)

\* a / b.
FDiv(a, b) ==
    LET neg == a.neg # b.neg
    IN  IF a.cls = "nan" \/ b.cls = "nan" THEN FNaN(a.fmt)
        ELSE IF a.cls = "inf"
             THEN (IF b.cls = "inf" THEN FNaN(a.fmt) ELSE FInf(a.fmt, neg))
        ELSE IF b.cls = "inf" THEN FZeroS(a.fmt, neg)
        ELSE IF IsZero(b)
             THEN (IF IsZero(a) THEN FNaN(a.fmt) ELSE FInf(a.fmt, neg))
        ELSE IF IsZero(a) THEN FZeroS(a.fmt, neg)
        ELSE LET k  == Max(0, Prec(a.fmt) + 2 + BitLen(b.m) - BitLen(a.m))
                 dm == BDivMod(BShl(a.m, k), b.m)
             IN  FRound(a.fmt, neg, dm.q, dm.r # <<>>, a.e - b.e - k)

\* The integer part of a finite float's magnitude.
FTrunc(x) == IF x.e >= 0 THEN BShl(x.m, x.e) ELSE BShr(x.m, 0 - x.e)

\* u32::MAX.
MAXCODE == BSub(BShl(BOne, 32), BOne)

\* `c as f32`, `c as f64`, NumCast::from(c): the float nearest to the u32 c.
FromU32(fmt, c) == FRound(fmt, FALSE, c, FALSE, 0)

FZero(fmt) == FZeroS(fmt, FALSE)

FOne(fmt) == FromU32(fmt, BOne)

FMinusOne(fmt) == FNormal(fmt, TRUE, BOne, 0)

\* ToPrimitive::to_u32 of a float: the truncated value when the float is in
\* (-1, u32::MAX as T], the upper end left out when T is no wider than u32
\* (u32::MAX as T is then 2^32); None otherwise.
ToU32(x) ==
    LET top == FromU32(x.fmt, MAXCODE)
        fit == IF SizeOf(x.fmt) > 4
               THEN FLt(FMinusOne(x.fmt), x) /\ FLe(x, top)
               ELSE FLt(FMinusOne(x.fmt), x) /\ FLt(x, top)
    IN  IF fit THEN [some |-> TRUE, v |-> IF x.neg THEN <<>> ELSE FTrunc(x)]
        ELSE [some |-> FALSE, v |-> <<>>]

\* FloatCore::clamp.
FClamp(x, lo, hi) ==
    IF FLt(x, lo) THEN lo ELSE IF FLt(hi, x) THEN hi ELSE x

(***************************************************************************)
(* u32 arithmetic.                                                         *)
(***************************************************************************)
IsU32(c) == BLe(c, MAXCODE)

\* a / b on u32, b # 0.
U32Div(a, b) == BDiv(a, b)

\* u32::saturating_mul.
saturating_mul(a, b) ==
    LET prod == BMul(a, b)
    IN  IF BLt(MAXCODE, prod) THEN MAXCODE ELSE prod

\* u32::wrapping product, a * b mod 2^32.
WrapMul(a, b) == BDivMod(BMul(a, b), BShl(BOne, 32)).r

(***************************************************************************)
(* What a call gives back: a value, a panic (the strict constructors), or  *)
(* Some / None (the checked ones).  A Primant or a Phase is its raw code.  *)
(***************************************************************************)
Ok(raw) == [tag |-> "ok", raw |-> raw]

\* A panic, with the failed assertion's or the runtime's message.
Panic(msg) == [tag |-> "panic", raw |-> <<>>, msg |-> msg]

UnwrapNone == Panic("called Option::unwrap() on a None value")

DivideByZero == Panic("attempt to divide by zero")

Some(raw) == [tag |-> "some", raw |-> raw]

None == [tag |-> "none", raw |-> <<>>]

Val(f) == [tag |-> "ok", val |-> f]

\* u32::unchecked_mul: the product, or undefined behaviour when it does not
\* fit: a build then either wraps it or stops on the precondition check.
unchecked_mul(a, b) ==
    IF BLe(BMul(a, b), MAXCODE)
    THEN {[res |-> Ok(BMul(a, b)), ub |-> FALSE]}
    ELSE {[res |-> Ok(WrapMul(a, b)), ub |-> TRUE],
          [res |-> Panic("unsafe precondition(s) violated: u32::unchecked_mul cannot overflow"),
           ub |-> TRUE]}

(***************************************************************************)
(* Primant (src/src/primant.rs).                                           *)
(***************************************************************************)
Primant_MAX == MAXCODE

Primant_from_raw(value) == value

Primant_to_raw(self) == self

\* The derived Ord: the order of the raw codes.
Primant_cmp(a, b) == BCmp(a, b)

\* impl From<Primant> for f32.
Primant_into_f32(value) ==
    FDiv(FromU32("f32", value), FromU32("f32", MAXCODE))

\* The conversion to f64 going through single precision.
Primant_into_f64_ViaF32(value) ==
    FDiv(FromU32("f32", value), FromU32("f32", MAXCODE))

\* impl From<Primant> for f64.
Primant_into_f64(value) ==
    FDiv(FromU32("f64", value), FromU32("f64", MAXCODE))

Primant_from_float(value) ==
    IF ~(FLe(FZero(value.fmt), value) /\ FLe(value, FOne(value.fmt)))
    THEN Panic("value must be in the range 0.0..=1.0")
    ELSE LET r == ToU32(FMul(value, FromU32(value.fmt, MAXCODE)))
         IN  IF r.some THEN Ok(r.v) ELSE UnwrapNone

Primant_try_from_float(value) ==
    IF FLt(value, FZero(value.fmt)) \/ FLt(FOne(value.fmt), value) THEN None
    ELSE LET r == ToU32(FMul(value, FromU32(value.fmt, MAXCODE)))
         IN  IF r.some THEN Some(r.v) ELSE None

Primant_from_float_saturating(value) ==
    LET r == ToU32(FMul(FClamp(value, FZero(value.fmt), FOne(value.fmt)),
                        FromU32(value.fmt, MAXCODE)))
    IN  IF r.some THEN Ok(r.v) ELSE UnwrapNone

Primant_into_float(fmt, self) ==
    FDiv(FromU32(fmt, self), FromU32(fmt, MAXCODE))

\* from_ratio_unchecked scaling by 2^32 / denominator, not u32::MAX / denominator.
Primant_from_ratio_unchecked_Pow2Scale(numerator, denominator) ==
    IF denominator = BZero THEN {[res |-> DivideByZero, ub |-> FALSE]}
    ELSE unchecked_mul(numerator, U32Div(BShl(BOne, 32), denominator))

\* The outcomes of from_ratio_unchecked: u32::MAX / 0 panics.
Primant_from_ratio_unchecked(numerator, denominator) ==
    IF denominator = BZero THEN {[res |-> DivideByZero, ub |-> FALSE]}
    ELSE unchecked_mul(numerator, U32Div(MAXCODE, denominator))

\* from_ratio without its check of numerator <= denominator.
Primant_from_ratio_NoShapeCheck(numerator, denominator) ==
    IF denominator = BZero
    THEN {[res |-> Panic("denominator must not be zero"), ub |-> FALSE]}
    ELSE Primant_from_ratio_unchecked(numerator, denominator)

Primant_from_ratio(numerator, denominator) ==
    IF denominator = BZero
    THEN {[res |-> Panic("denominator must not be zero"), ub |-> FALSE]}
    ELSE IF ~BLe(numerator, denominator)
    THEN {[res |-> Panic("numerator must not be greater than the denominator"),
           ub |-> FALSE]}
    ELSE Primant_from_ratio_unchecked(numerator, denominator)

\* try_from_ratio rejecting numerator = denominator as well.
Primant_try_from_ratio_RejectsEqual(numerator, denominator) ==
    IF denominator = BZero \/ BLe(denominator, numerator)
    THEN {[res |-> None, ub |-> FALSE]}
    ELSE {[res |-> IF o.res.tag = "ok" THEN Some(o.res.raw) ELSE o.res,
           ub |-> o.ub] :
          o \in Primant_from_ratio_unchecked(numerator, denominator)}

Primant_try_from_ratio(numerator, denominator) ==
    IF denominator = BZero \/ BLt(denominator, numerator)
    THEN {[res |-> None, ub |-> FALSE]}
    ELSE {[res |-> IF o.res.tag = "ok" THEN Some(o.res.raw) ELSE o.res,
           ub |-> o.ub] :
          o \in Primant_from_ratio_unchecked(numerator, denominator)}

Primant_from_ratio_saturating(numerator, denominator) ==
    IF denominator = BZero THEN Panic("denominator must not be zero")
    ELSE Ok(saturating_mul(numerator, U32Div(MAXCODE, denominator)))

Hundred(fmt) == FromU32(fmt, Big(100))

Primant_to_percentage(fmt, self) ==
    FMul(Primant_into_float(fmt, self), Hundred(fmt))

Primant_from_percentage(percentage) ==
    Primant_from_float(FDiv(percentage, Hundred(percentage.fmt)))

Primant_try_from_percentage(percentage) ==
    Primant_try_from_float(FDiv(percentage, Hundred(percentage.fmt)))

Primant_from_percentage_saturating(percentage) ==
    LET value == FDiv(percentage, Hundred(percentage.fmt))
    IN  Primant_from_float(FClamp(value, FZero(value.fmt), FOne(value.fmt)))

(***************************************************************************)
(* Phase (src/src/phase.rs).                                               *)
(***************************************************************************)
Phase_MAX == MAXCODE

Phase_from_raw(value) == value

Phase_to_raw(self) == self

Phase_cmp(a, b) == BCmp(a, b)

\* impl From<Phase> for f32.
Phase_into_f32(value) ==
    FDiv(FromU32("f32", value), FromU32("f32", MAXCODE))

\* impl From<Phase> for f64.
Phase_into_f64(value) ==
    FDiv(FromU32("f64", value), FromU32("f64", MAXCODE))

Phase_from_float(value) ==
    IF ~(FLe(FZero(value.fmt), value) /\ FLt(value, FOne(value.fmt)))
    THEN Panic("value must be in the range 0.0..1.0")
    ELSE LET r == ToU32(FMul(value, FromU32(value.fmt, MAXCODE)))
         IN  IF r.some THEN Ok(r.v) ELSE UnwrapNone

Phase_try_from_float(value) ==
    IF FLt(value, FZero(value.fmt)) \/ FLe(FOne(value.fmt), value) THEN None
    ELSE LET r == ToU32(FMul(value, FromU32(value.fmt, MAXCODE)))
         IN  IF r.some THEN Some(r.v) ELSE None

Phase_from_float_saturating(value) ==
    LET r == ToU32(FMul(FClamp(value, FZero(value.fmt), FOne(value.fmt)),
                        FromU32(value.fmt, MAXCODE)))
    IN  IF r.some THEN Ok(r.v) ELSE UnwrapNone

(***************************************************************************)
(* The inputs the calls are made on.                                       *)
(***************************************************************************)
\* How far around each landmark code and each landmark float (in units in
\* the last place) the inputs reach.
EdgeWidth == 2

\* The floats k / 2^GridBits between -1 and 2 are inputs.
GridBits == 3

CodeLandmarks == {BZero, BShl(BOne, 16), BShl(BOne, 31), MAXCODE}

CodeSamples ==
    {c \in UNION {{BAdd(l, Big(k)) : k \in 0..EdgeWidth} \cup
                  {BSub(BMax(l, Big(k)), Big(k)) : k \in 0..EdgeWidth} :
                  l \in CodeLandmarks} : IsU32(c)}

\* The floats m * 2^e and their EdgeWidth neighbours on either side; m has
\* the format's Prec bits, so the neighbours above are (m + j) * 2^e and the
\* ones below, across the power of two, (2m - j) * 2^(e-1).
Around(fmt, m, e) ==
    {FNormal(fmt, FALSE, BAdd(m, Big(j)), e) : j \in 0..EdgeWidth} \cup
    {FNormal(fmt, FALSE, BSub(BShl(m, 1), Big(j)), e - 1) : j \in 1..EdgeWidth}

Specials(fmt) ==
    {FNaN(fmt), FInf(fmt, FALSE), FInf(fmt, TRUE), FZeroS(fmt, TRUE)} \cup
    {FNormal(fmt, neg, Big(j), MinExp(fmt)) : neg \in BOOLEAN, j \in 1..EdgeWidth}

Grid(fmt) ==
    {FNormal(fmt, k < 0, Big(IF k < 0 THEN 0 - k ELSE k), 0 - GridBits) :
        k \in (0 - 2^GridBits)..(2^(GridBits + 1))}

\* The values of the EdgeWidth codes nearest to each landmark code.
CodePoints(fmt) ==
    {FDiv(FromU32(fmt, c), FromU32(fmt, MAXCODE)) : c \in CodeSamples}

\* Inputs of the float constructors: a grid over [-1, 2], the special
\* values, the neighbours of 1/2 and of 1, the values of the sample codes and,
\* in f64, 1/2 + 2^-33, whose product with u32::MAX rounds up to 2^31.
FloatSamples(fmt) ==
    Specials(fmt) \cup Grid(fmt) \cup CodePoints(fmt) \cup
    Around(fmt, BShl(BOne, Prec(fmt) - 1), 0 - Prec(fmt)) \cup
    Around(fmt, BShl(BOne, Prec(fmt) - 1), 1 - Prec(fmt)) \cup
    (IF Prec(fmt) > 33
     THEN {FNormal(fmt, FALSE, BAdd(BShl(BOne, 32), BOne), -33)}
     ELSE {})

\* Inputs of the percentage constructors: the grid scaled by 100, the special
\* values and the neighbours of 100.
PercentSamples(fmt) ==
    Specials(fmt) \cup
    {FMul(x, Hundred(fmt)) : x \in Grid(fmt)} \cup
    {FNormal(fmt, neg, BAdd(BShl(Big(25), Prec(fmt) - 5), Big(j)), 7 - Prec(fmt)) :
        neg \in {FALSE}, j \in 0..EdgeWidth} \cup
    {FNormal(fmt, FALSE, BSub(BShl(Big(25), Prec(fmt) - 5), Big(j)), 7 - Prec(fmt)) :
        j \in 1..EdgeWidth}

Inputs ==
    {[kind |-> "float", x |-> x] : x \in FloatSamples("f32") \cup FloatSamples("f64")}
    \cup
    {[kind |-> "percent", x |-> x] :
        x \in PercentSamples("f32") \cup PercentSamples("f64")}
    \cup {[kind |-> "code", c |-> c] : c \in CodeSamples}
    \cup {[kind |-> "codes", a |-> a, b |-> b] : a \in CodeSamples, b \in CodeSamples}

(***************************************************************************)
(* The state: the inputs at hand, the call made on them ("none" before     *)
(* it), what the call gave back, and whether it ran into undefined         *)
(* behaviour.                                                              *)
(***************************************************************************)
VARIABLES args, call, ret, ub

vars == <<args, call, ret, ub>>

NoRet == [tag |-> "pending"]

Init ==
    /\ args \in Inputs
    /\ call = "none"
    /\ ret = NoRet
    /\ ub = FALSE

\* A call that cannot run into undefined behaviour.
Returns(name, r) ==
    /\ call = "none"
    /\ call' = name
    /\ ret' = r
    /\ UNCHANGED <<args, ub>>

\* A call into from_ratio_unchecked: one of its outcomes.
ReturnsOneOf(name, outcomes) ==
    /\ call = "none"
    /\ call' = name
    /\ \E o \in outcomes : ret' = o.res /\ ub' = o.ub
    /\ UNCHANGED args

PrimantFromFloat ==
    /\ args.kind = "float"
    /\ Returns("Primant::from_float", Primant_from_float(args.x))

PrimantTryFromFloat ==
    /\ args.kind = "float"
    /\ Returns("Primant::try_from_float", Primant_try_from_float(args.x))

PrimantFromFloatSaturating ==
    /\ args.kind = "float"
    /\ Returns("Primant::from_float_saturating", Primant_from_float_saturating(args.x))

PrimantIntoFloat ==
    /\ args.kind = "code"
    /\ \E fmt \in Formats :
          Returns("Primant::into_float", Val(Primant_into_float(fmt, args.c)))

PrimantIntoF32 ==
    /\ args.kind = "code"
    /\ Returns("f32::from(Primant)", Val(Primant_into_f32(args.c)))

PrimantIntoF64 ==
    /\ args.kind = "code"
    /\ Returns("f64::from(Primant)", Val(Primant_into_f64(args.c)))

PrimantCmp ==
    /\ args.kind = "codes"
    /\ Returns("Primant::cmp", [tag |-> "ok", ord |-> Primant_cmp(args.a, args.b)])

PrimantFromRatio ==
    /\ args.kind = "codes"
    /\ ReturnsOneOf("Primant::from_ratio", Primant_from_ratio(args.a, args.b))

PrimantTryFromRatio ==
    /\ args.kind = "codes"
    /\ ReturnsOneOf("Primant::try_from_ratio", Primant_try_from_ratio(args.a, args.b))

PrimantFromRatioSaturating ==
    /\ args.kind = "codes"
    /\ Returns("Primant::from_ratio_saturating",
               Primant_from_ratio_saturating(args.a, args.b))

PrimantFromRatioUnchecked ==
    /\ args.kind = "codes"
    /\ ReturnsOneOf("Primant::from_ratio_unchecked",
                    Primant_from_ratio_unchecked(args.a, args.b))

PrimantToPercentage ==
    /\ args.kind = "code"
    /\ \E fmt \in Formats :
          Returns("Primant::to_percentage", Val(Primant_to_percentage(fmt, args.c)))

PrimantFromPercentage ==
    /\ args.kind = "percent"
    /\ Returns("Primant::from_percentage", Primant_from_percentage(args.x))

PrimantTryFromPercentage ==
    /\ args.kind = "percent"
    /\ Returns("Primant::try_from_percentage", Primant_try_from_percentage(args.x))

PrimantFromPercentageSaturating ==
    /\ args.kind = "percent"
    /\ Returns("Primant::from_percentage_saturating",
               Primant_from_percentage_saturating(args.x))

PhaseFromFloat ==
    /\ args.kind = "float"
    /\ Returns("Phase::from_float", Phase_from_float(args.x))

PhaseTryFromFloat ==
    /\ args.kind = "float"
    /\ Returns("Phase::try_from_float", Phase_try_from_float(args.x))

PhaseFromFloatSaturating ==
    /\ args.kind = "float"
    /\ Returns("Phase::from_float_saturating", Phase_from_float_saturating(args.x))

PhaseIntoF32 ==
    /\ args.kind = "code"
    /\ Returns("f32::from(Phase)", Val(Phase_into_f32(args.c)))

PhaseIntoF64 ==
    /\ args.kind = "code"
    /\ Returns("f64::from(Phase)", Val(Phase_into_f64(args.c)))

PhaseCmp ==
    /\ args.kind = "codes"
    /\ Returns("Phase::cmp", [tag |-> "ok", ord |-> Phase_cmp(args.a, args.b)])

Next ==
    \/ PrimantFromFloat
    \/ PrimantTryFromFloat
    \/ PrimantFromFloatSaturating
    \/ PrimantIntoFloat
    \/ PrimantIntoF32
    \/ PrimantIntoF64
    \/ PrimantCmp
    \/ PrimantFromRatio
    \/ PrimantTryFromRatio
    \/ PrimantFromRatioSaturating
    \/ PrimantFromRatioUnchecked
    \/ PrimantToPercentage
    \/ PrimantFromPercentage
    \/ PrimantTryFromPercentage
    \/ PrimantFromPercentageSaturating
    \/ PhaseFromFloat
    \/ PhaseTryFromFloat
    \/ PhaseFromFloatSaturating
    \/ PhaseIntoF32
    \/ PhaseIntoF64
    \/ PhaseCmp

Spec == Init /\ [][Next]_vars

(***************************************************************************)
(* The properties checked.  The domains and the expected codes below are   *)
(* stated on their own, apart from the operators that model the code.      *)
(***************************************************************************)
\* x is a number in [0, 1], the domain of Primant.
InClosedUnit(x) == FLe(FZero(x.fmt), x) /\ FLe(x, FOne(x.fmt))

\* x is a number in [0, 1), the domain of Phase.
InHalfOpenUnit(x) == FLe(FZero(x.fmt), x) /\ FLt(x, FOne(x.fmt))

\* truncate(x * MAXCODE), the product taken in the format of x.
TruncatedCode(x) == FTrunc(FMul(x, FromU32(x.fmt, MAXCODE)))

\* C1: the float value of every Phase raw code lies in [0.0, 1.0): it is
\* below 1.0 even for Phase::MAX, and exactly 0.0 for the raw code 0.
C1_PhaseValueBelowOne ==
    call \in {"f32::from(Phase)", "f64::from(Phase)"} =>
        /\ FLe(FZero(ret.val.fmt), ret.val)
        /\ FLt(ret.val, FOne(ret.val.fmt))
        /\ (args.c = BZero => IsZero(ret.val))

\* C2: the strict and the checked float constructors reject exactly the
\* values outside the type's domain ([0, 1] for Primant, [0, 1) for Phase),
\* the strict one by a panic and the checked one by None, and on every value
\* of the domain both give the raw code truncate(x * MAXCODE).
C2_StrictAndCheckedAcceptTheDomain ==
    /\ call = "Primant::from_float" =>
          IF InClosedUnit(args.x) THEN ret = Ok(TruncatedCode(args.x))
          ELSE ret.tag = "panic"
    /\ call = "Primant::try_from_float" =>
          IF InClosedUnit(args.x) THEN ret = Some(TruncatedCode(args.x))
          ELSE ret = None
    /\ call = "Phase::from_float" =>
          IF InHalfOpenUnit(args.x) THEN ret = Ok(TruncatedCode(args.x))
          ELSE ret.tag = "panic"
    /\ call = "Phase::try_from_float" =>
          IF InHalfOpenUnit(args.x) THEN ret = Some(TruncatedCode(args.x))
          ELSE ret = None

\* C3: from_float_saturating never panics, on any input: above the domain
\* it gives MAXCODE, below it 0, and inside it truncate(x * MAXCODE), the
\* code the strict constructor gives.
C3_SaturatingNeverAborts ==
    /\ call = "Primant::from_float_saturating" =>
          /\ ret.tag = "ok"
          /\ FLt(FOne(args.x.fmt), args.x) => ret.raw = MAXCODE
          /\ FLt(args.x, FZero(args.x.fmt)) => ret.raw = BZero
          /\ InClosedUnit(args.x) =>
                ret.raw = TruncatedCode(args.x) /\ ret = Primant_from_float(args.x)
    /\ call = "Phase::from_float_saturating" =>
          /\ ret.tag = "ok"
          /\ FLe(FOne(args.x.fmt), args.x) => ret.raw = MAXCODE
          /\ FLt(args.x, FZero(args.x.fmt)) => ret.raw = BZero
          /\ InHalfOpenUnit(args.x) =>
                ret.raw = TruncatedCode(args.x) /\ ret = Phase_from_float(args.x)

\* The preconditions of the strict and checked ratio constructors.
RatioFits(n, d) == d # BZero /\ BLe(n, d)

\* n * floor(MAXCODE / d), as a natural number.
RatioCode(n, d) == BMul(n, BDiv(MAXCODE, d))

\* C4: try_from_ratio(n, d) is None exactly when d = 0 or n > d, from_ratio
\* panics in exactly those cases, and otherwise both give the value of raw
\* code n * floor(MAXCODE / d).
C4_RatioConstructorsAgree ==
    /\ call = "Primant::try_from_ratio" =>
          /\ IF RatioFits(args.a, args.b)
             THEN ret = Some(RatioCode(args.a, args.b))
             ELSE ret = None
          /\ ret.tag = "some" =>
                \E o \in Primant_from_ratio(args.a, args.b) : o.res = Ok(ret.raw)
    /\ call = "Primant::from_ratio" =>
          IF RatioFits(args.a, args.b)
          THEN ret = Ok(RatioCode(args.a, args.b))
          ELSE ret.tag = "panic"

\* try_from_ratio(1, 2) gives the code floor(MAXCODE / 2) = 2^31 - 1.
C4_Witness ==
    /\ call = "Primant::try_from_ratio"
    /\ args.a = Big(1) /\ args.b = Big(2)
    /\ ret = Some(Big(2147483647))

\* n * MAXCODE - r * d, for r * d <= n * MAXCODE.
RatioError(n, d, r) == BSub(BMul(n, MAXCODE), BMul(r, d))

\* C5 as claimed: for d # 0 and n <= d the code r of from_ratio(n, d) has
\* 0 <= n * MAXCODE - r * d <= d * (d - 1), and it is exact
\* (r * d = n * MAXCODE) only when d divides MAXCODE.
C5_RatioBound_ExactOnlyForDivisors ==
    call = "Primant::from_ratio" /\ RatioFits(args.a, args.b) =>
        /\ ret.tag = "ok"
        /\ BLe(BMul(ret.raw, args.b), BMul(args.a, MAXCODE))
        /\ BLe(RatioError(args.a, args.b, ret.raw),
               BMul(args.b, BSub(args.b, BOne)))
        /\ (BMul(ret.raw, args.b) = BMul(args.a, MAXCODE) =>
               BDivMod(MAXCODE, args.b).r = BZero)

\* C5, amended: the same bound, and the result is exact only when d divides
\* MAXCODE or n = 0.
C5_RatioBound ==
    call = "Primant::from_ratio" /\ RatioFits(args.a, args.b) =>
        /\ ret.tag = "ok"
        /\ BLe(BMul(ret.raw, args.b), BMul(args.a, MAXCODE))
        /\ BLe(RatioError(args.a, args.b, ret.raw),
               BMul(args.b, BSub(args.b, BOne)))
        /\ (BMul(ret.raw, args.b) = BMul(args.a, MAXCODE) =>
               BDivMod(MAXCODE, args.b).r = BZero \/ args.a = BZero)

\* from_ratio(2^16, 2^16): the error reaches the bound d * (d - 1).
C5_Witness ==
    /\ call = "Primant::from_ratio"
    /\ args.a = BShl(BOne, 16) /\ args.b = BShl(BOne, 16)
    /\ ret.tag = "ok"
    /\ RatioError(args.a, args.b, ret.raw) = BMul(args.b, BSub(args.b, BOne))
    /\ RatioError(args.a, args.b, ret.raw) # BZero

\* C6: from_ratio_saturating(n, d) panics exactly when d = 0, and gives
\* MAXCODE whenever n > d.
C6_RatioSaturatingClamps ==
    call = "Primant::from_ratio_saturating" =>
        /\ (ret.tag = "panic" <=> args.b = BZero)
        /\ (args.b # BZero /\ BLt(args.b, args.a) => ret = Ok(MAXCODE))

\* C10: from_ratio and try_from_ratio never run unchecked_mul into overflow
\* and never divide by zero; for d # 0 and n <= d the product
\* n * floor(MAXCODE / d) is at most MAXCODE, it is the code returned, and
\* from_ratio_saturating returns the same code.
C10_UncheckedMulNeverOverflows ==
    call \in {"Primant::from_ratio", "Primant::try_from_ratio"} =>
        /\ ~ub
        /\ ret # DivideByZero
        /\ RatioFits(args.a, args.b) =>
              /\ BLe(RatioCode(args.a, args.b), MAXCODE)
              /\ ret.tag \in {"ok", "some"}
              /\ ret.raw = RatioCode(args.a, args.b)
              /\ Primant_from_ratio_saturating(args.a, args.b) = Ok(ret.raw)

\* from_ratio(MAXCODE, MAXCODE): the product is MAXCODE itself.
C10_Witness ==
    /\ call = "Primant::from_ratio"
    /\ args.a = MAXCODE /\ args.b = MAXCODE
    /\ ret = Ok(MAXCODE)
    /\ ~ub

\* The exact difference of two finite floats x, y >= 0, as integers on a
\* common exponent: x = X * 2^e and y = Y * 2^e.
Aligned(x, y) ==
    LET e == IF x.m = <<>> THEN y.e
             ELSE IF y.m = <<>> THEN x.e
             ELSE Min(x.e, y.e)
    IN  [e |-> e,
         X |-> IF x.m = <<>> THEN <<>> ELSE BShl(x.m, x.e - e),
         Y |-> IF y.m = <<>> THEN <<>> ELSE BShl(y.m, y.e - e)]

\* |x - y| * MAXCODE <= k, in exact arithmetic.
AbsDiffTimesMaxLe(x, y, k) ==
    LET al == Aligned(x, y)
        d  == IF BLe(al.Y, al.X) THEN BSub(al.X, al.Y) ELSE BSub(al.Y, al.X)
    IN  IF al.e >= 0 THEN BLe(BShl(BMul(d, MAXCODE), al.e), Big(k))
        ELSE BLe(BMul(d, MAXCODE), BShl(Big(k), 0 - al.e))

\* 0 <= x - y and (x - y) * MAXCODE < 1, in exact arithmetic.
TruncatedWithinOne(x, y) ==
    LET al == Aligned(x, y)
    IN  /\ BLe(al.Y, al.X)
        /\ IF al.e >= 0 THEN BLt(BShl(BMul(BSub(al.X, al.Y), MAXCODE), al.e), BOne)
           ELSE BLt(BMul(BSub(al.X, al.Y), MAXCODE), BShl(BOne, 0 - al.e))

\* The float a Phase converts to, in the format asked for.
PhaseInto(fmt, raw) ==
    IF fmt = "f32" THEN Phase_into_f32(raw) ELSE Phase_into_f64(raw)

\* C7: for every x of the type's domain, from_float_saturating(x) converted
\* back to a float is a y with |x - y| <= 1 / MAXCODE, and 0 <= x - y <
\* 1 / MAXCODE since the conversion truncates.
C7_FloatRoundTrip ==
    /\ call = "Primant::from_float_saturating" /\ InClosedUnit(args.x) =>
          /\ ret.tag = "ok"
          /\ AbsDiffTimesMaxLe(args.x, Primant_into_float(args.x.fmt, ret.raw), 1)
          /\ TruncatedWithinOne(args.x, Primant_into_float(args.x.fmt, ret.raw))
    /\ call = "Phase::from_float_saturating" /\ InHalfOpenUnit(args.x) =>
          /\ ret.tag = "ok"
          /\ AbsDiffTimesMaxLe(args.x, PhaseInto(args.x.fmt, ret.raw), 1)
          /\ TruncatedWithinOne(args.x, PhaseInto(args.x.fmt, ret.raw))

\* C8: the order and the equality of two values of one type are those of
\* their raw codes and those of their f64 values.
C8_OrderMatchesFloatOrder ==
    /\ call = "Primant::cmp" =>
          /\ (ret.ord = -1) <=> BLt(Primant_to_raw(args.a), Primant_to_raw(args.b))
          /\ (ret.ord = 0) <=> Primant_to_raw(args.a) = Primant_to_raw(args.b)
          /\ (ret.ord = -1) <=> FLt(Primant_into_f64(args.a), Primant_into_f64(args.b))
          /\ (ret.ord = 0) <=> FEq(Primant_into_f64(args.a), Primant_into_f64(args.b))
    /\ call = "Phase::cmp" =>
          /\ (ret.ord = -1) <=> BLt(Phase_to_raw(args.a), Phase_to_raw(args.b))
          /\ (ret.ord = 0) <=> Phase_to_raw(args.a) = Phase_to_raw(args.b)
          /\ (ret.ord = -1) <=> FLt(Phase_into_f64(args.a), Phase_into_f64(args.b))
          /\ (ret.ord = 0) <=> FEq(Phase_into_f64(args.a), Phase_into_f64(args.b))

\* The two largest codes are apart, and so are their f64 values.
C8_Witness ==
    /\ call = "Primant::cmp"
    /\ args.a = BSub(MAXCODE, BOne) /\ args.b = MAXCODE
    /\ ret.ord = -1
    /\ FLt(Primant_into_f64(args.a), Primant_into_f64(args.b))

\* p is a number in [0, 100].
InPercentRange(p) == FLe(FZero(p.fmt), p) /\ FLe(p, Hundred(p.fmt))

\* C9: from_percentage panics and try_from_percentage is None exactly when
\* p < 0 or p > 100; from_percentage_saturating never panics and gives 0
\* below and MAXCODE above the range; on [0, 100] all three give
\* from_float(p / 100), whose to_percentage is within 100 / MAXCODE of p.
C9_PercentageTrichotomy ==
    /\ call = "Primant::from_percentage" =>
          IF InPercentRange(args.x)
          THEN /\ ret.tag = "ok"
               /\ ret = Primant_from_float(FDiv(args.x, Hundred(args.x.fmt)))
               /\ AbsDiffTimesMaxLe(args.x, Primant_to_percentage(args.x.fmt, ret.raw), 100)
          ELSE ret.tag = "panic"
    /\ call = "Primant::try_from_percentage" =>
          IF InPercentRange(args.x)
          THEN /\ ret.tag = "some"
               /\ Ok(ret.raw) = Primant_from_float(FDiv(args.x, Hundred(args.x.fmt)))
               /\ AbsDiffTimesMaxLe(args.x, Primant_to_percentage(args.x.fmt, ret.raw), 100)
          ELSE ret = None
    /\ call = "Primant::from_percentage_saturating" =>
          /\ ret.tag = "ok"
          /\ FLt(args.x, FZero(args.x.fmt)) => ret.raw = BZero
          /\ FLt(Hundred(args.x.fmt), args.x) => ret.raw = MAXCODE
          /\ InPercentRange(args.x) =>
                /\ ret = Primant_from_float(FDiv(args.x, Hundred(args.x.fmt)))
                /\ AbsDiffTimesMaxLe(args.x, Primant_to_percentage(args.x.fmt, ret.raw), 100)

====
